---- MODULE Spec2Model ----
(***************************************************************************)
(* Model of the seller-apis repository: seller.py (Ozon) and market.py     *)
(* (Yandex Market).  Texts (quantity descriptors, price texts) are         *)
(* sequences of one-character strings, so that parsing is computed and not *)
(* assumed.  Python lists are sequences.  A call that raises is a result   *)
(* record with raised = TRUE.                                              *)
(***************************************************************************)
EXTENDS Integers, Sequences, FiniteSets, TLC

VARIABLES
    pc,             \* position of the running program / harness
    watch_remnants, \* the feed rows (download_stock's result)
    offer_ids,      \* the Python list offer_ids (mutated in place by create_stocks)
    ids0,           \* history: offer_ids as it was when the last call received it
    called,         \* history: name of the last function called by a harness
    ret,            \* value returned by the last call (records, or chunks)
    listing,        \* marketplace side: account -> the listing it serves
    account,        \* the account / campaign the pager is talking to
    cursor,         \* last_id / page token, as a position in the listing (0 = "")
    product_list,   \* get_offer_ids' accumulator
    fetches,        \* history: number of get_product_list calls of this pagination
    signalAt,       \* history: value of fetches when the completion signal was seen (0 = not yet)
    served,         \* history: the offer ids served on the pages of this pagination
    lst,            \* divide's list argument
    n,              \* divide's chunk size
    chunks,         \* list(divide(...)) not yet pushed
    requests,       \* history: update requests issued, in order
    stocks,         \* main's local stocks
    prices,         \* main's local prices
    channel,        \* market.main: index of the channel pass (1 = FBS, 2 = DBS)
    coroutines,     \* coroutine objects created and never awaited
    failed,         \* history: the calls that raised, in order
    reported        \* history: main's except clause printed an error

vars == << pc, watch_remnants, offer_ids, ids0, called, ret, listing, account,
           cursor, product_list, fetches, signalAt, served, lst, n, chunks,
           requests, stocks, prices, channel, coroutines, failed, reported >>

-----------------------------------------------------------------------------
(* Bounds of the model *)

MaxFeed == 2        \* feed rows per run (reconciliation harness)
MaxIds == 2         \* length of an offer-id list handed to reconciliation
MaxListing == 3     \* offers in a marketplace listing
MaxPage == 2        \* largest page the marketplace serves
MaxLst == 4         \* length of a list handed to divide
MaxN == 3           \* largest chunk size handed to divide
MaxMainFeed == 1    \* feed rows per run of a main()

-----------------------------------------------------------------------------
(* Sample inputs *)

OfferIdUniverse == {"A", "B", "C"}
FeedCodes == {"A", "B"}

Digits == {"0", "1", "2", "3", "4", "5", "6", "7", "8", "9"}

DigitValue ==
    ("0" :> 0) @@ ("1" :> 1) @@ ("2" :> 2) @@ ("3" :> 3) @@ ("4" :> 4) @@
    ("5" :> 5) @@ ("6" :> 6) @@ ("7" :> 7) @@ ("8" :> 8) @@ ("9" :> 9)

\* (quantity descriptor, price text) pairs a feed row is drawn from
RowSamples ==
    { << <<">", "1", "0">>, <<"5", "'", "9", "9", "0", ".", "0", "0", " ", "r", ".">> >>,
      << <<"1">>,           <<"1", "2", ".", "5", "0">> >>,
      << <<"7">>,           <<"n", "/", "a">> >>,
      << <<"a", "b", "c">>, <<"1", "0", "0", ".", "0", "0", " ", "r", ".">> >>,
      << <<"-", "3">>,      <<"5", "0", ".", "0", "0", " ", "r", ".">> >>,
      << <<"1", "0">>,      <<".", "9", "9">> >>,
      << <<"0">>,           <<"1", "2", ".", "5", "0">> >> }

Rows == { [Kod |-> c, Kolichestvo |-> s[1], Tsena |-> s[2]] :
            c \in FeedCodes, s \in RowSamples }

SeqsUpTo(S, k) == UNION { [1..m -> S] : m \in 0..k }

-----------------------------------------------------------------------------
(* Python built-ins used by the code *)

\* x in list
In(x, s) == \E i \in 1..Len(s) : s[i] = x

\* list.remove(x): drops the first occurrence (the code only calls it when x in list)
Remove(s, x) ==
    LET i == CHOOSE k \in 1..Len(s) : s[k] = x /\ \A j \in 1..(k - 1) : s[j] # x
    IN  SubSeq(s, 1, i - 1) \o SubSeq(s, i + 1, Len(s))

IsDigits(s) == Len(s) > 0 /\ \A i \in 1..Len(s) : s[i] \in Digits

RECURSIVE DigitsValue(_)
DigitsValue(s) ==
    IF s = <<>> THEN 0
    ELSE 10 * DigitsValue(SubSeq(s, 1, Len(s) - 1)) + DigitValue[s[Len(s)]]

\* int(text): an optional sign and at least one decimal digit, else ValueError
\* (of the texts int() accepts, surrounding blanks and "_" separators are not sampled)
IntBody(s) == IF s # <<>> /\ s[1] \in {"+", "-"} THEN Tail(s) ELSE s
IntOk(s) == IsDigits(IntBody(s))
IntValue(s) ==
    IF s # <<>> /\ s[1] = "-" THEN 0 - DigitsValue(IntBody(s))
    ELSE DigitsValue(IntBody(s))

\* text.split(".")[0]
SplitDot0(s) ==
    IF \E i \in 1..Len(s) : s[i] = "."
    THEN SubSeq(s, 1, (CHOOSE i \in 1..Len(s) :
                          s[i] = "." /\ \A j \in 1..(i - 1) : s[j] # ".") - 1)
    ELSE s

IsDigit(c) == c \in Digits

-----------------------------------------------------------------------------
(* seller.py *)

\* re.sub("[^0-9]", "", price.split(".")[0]); the result is a string of digits
price_conversion(price) == SelectSeq(SplitDot0(price), IsDigit)

\* the quantity mapping of create_stocks: [raised, stock]
quantity(count) ==
    IF count = <<">", "1", "0">> THEN [raised |-> FALSE, stock |-> 100]
    ELSE IF count = <<"1">> THEN [raised |-> FALSE, stock |-> 0]
    ELSE IF IntOk(count) THEN [raised |-> FALSE, stock |-> IntValue(count)]
    ELSE [raised |-> TRUE, stock |-> 0]

seller_stock(offer_id, stock) == [offer_id |-> offer_id, stock |-> stock]

market_stock(sku, warehouse_id, stock) ==
    [sku |-> sku, warehouseId |-> warehouse_id, count |-> stock, type |-> "FIT"]

\* for offer_id in offer_ids: stocks.append(<record with 0>)
seller_zero_fill(ids) == [k \in 1..Len(ids) |-> seller_stock(ids[k], 0)]

market_zero_fill(ids, warehouse_id) ==
    [k \in 1..Len(ids) |-> market_stock(ids[k], warehouse_id, 0)]

\* a faulty variant: the matched offer id stays in offer_ids
seller_matched_kept(ids, code) == ids

\* offer_ids.remove(str(watch.get("Код")))
seller_matched(ids, code) == Remove(ids, code)

\* a faulty variant: nothing is added for the offers the feed does not have
seller_no_fill(ids) == <<>>

\* the second loop of create_stocks
seller_fill(ids) == seller_zero_fill(ids)

\* create_stocks: the loop over watch_remnants from row i on, then the zero fill.
\* Result: [raised, stocks, offer_ids]; offer_ids is the list as the call leaves it.
RECURSIVE seller_create_stocks_from(_, _, _, _)
seller_create_stocks_from(rows, i, ids, acc) ==
    IF i > Len(rows)
    THEN [raised |-> FALSE, stocks |-> acc \o seller_fill(ids), offer_ids |-> ids]
    ELSE IF ~In(rows[i].Kod, ids)
    THEN seller_create_stocks_from(rows, i + 1, ids, acc)
    ELSE LET q == quantity(rows[i].Kolichestvo) IN
         IF q.raised
         THEN [raised |-> TRUE, stocks |-> <<>>, offer_ids |-> ids]
         ELSE seller_create_stocks_from(rows, i + 1, seller_matched(ids, rows[i].Kod),
                                        Append(acc, seller_stock(rows[i].Kod, q.stock)))

seller_create_stocks(rows, ids) == seller_create_stocks_from(rows, 1, ids, <<>>)

seller_price(offer_id, price) ==
    [offer_id |-> offer_id, price |-> price, currency_code |-> "RUB",
     auto_action_enabled |-> "UNKNOWN", old_price |-> "0"]

\* create_prices: never raises, never touches offer_ids
RECURSIVE seller_create_prices_from(_, _, _, _)
seller_create_prices_from(rows, i, ids, acc) ==
    IF i > Len(rows)
    THEN [raised |-> FALSE, prices |-> acc, offer_ids |-> ids]
    ELSE IF ~In(rows[i].Kod, ids)
    THEN seller_create_prices_from(rows, i + 1, ids, acc)
    ELSE seller_create_prices_from(rows, i + 1, ids,
             Append(acc, seller_price(rows[i].Kod, price_conversion(rows[i].Tsena))))

seller_create_prices(rows, ids) == seller_create_prices_from(rows, 1, ids, <<>>)

-----------------------------------------------------------------------------
(* market.py *)

RECURSIVE market_create_stocks_from(_, _, _, _, _)
market_create_stocks_from(rows, i, ids, warehouse_id, acc) ==
    IF i > Len(rows)
    THEN [raised |-> FALSE, stocks |-> acc \o market_zero_fill(ids, warehouse_id),
          offer_ids |-> ids]
    ELSE IF ~In(rows[i].Kod, ids)
    THEN market_create_stocks_from(rows, i + 1, ids, warehouse_id, acc)
    ELSE LET q == quantity(rows[i].Kolichestvo) IN
         IF q.raised
         THEN [raised |-> TRUE, stocks |-> <<>>, offer_ids |-> ids]
         ELSE market_create_stocks_from(rows, i + 1, Remove(ids, rows[i].Kod), warehouse_id,
                  Append(acc, market_stock(rows[i].Kod, warehouse_id, q.stock)))

market_create_stocks(rows, ids, warehouse_id) ==
    market_create_stocks_from(rows, 1, ids, warehouse_id, <<>>)

market_price(id, value) == [id |-> id, value |-> value, currencyId |-> "RUR"]

\* create_prices: int(price_conversion(...)) raises ValueError on ""
RECURSIVE market_create_prices_from(_, _, _, _)
market_create_prices_from(rows, i, ids, acc) ==
    IF i > Len(rows)
    THEN [raised |-> FALSE, prices |-> acc, offer_ids |-> ids]
    ELSE IF ~In(rows[i].Kod, ids)
    THEN market_create_prices_from(rows, i + 1, ids, acc)
    ELSE LET p == price_conversion(rows[i].Tsena) IN
         IF ~IntOk(p)
         THEN [raised |-> TRUE, prices |-> <<>>, offer_ids |-> ids]
         ELSE market_create_prices_from(rows, i + 1, ids,
                  Append(acc, market_price(rows[i].Kod, IntValue(p))))

market_create_prices(rows, ids) == market_create_prices_from(rows, 1, ids, <<>>)

-----------------------------------------------------------------------------
(* seller.divide, shared by both modules *)

Min(a, b) == IF a < b THEN a ELSE b

\* lst[a:b] for 0 <= a <= b
Slice(s, a, b) == SubSeq(s, a + 1, Min(b, Len(s)))

\* len(range(0, len, n)) for n >= 1
RangeLen(len, step) == (len + step - 1) \div step

\* a faulty variant: the slice runs one element into the next chunk
divide_overlapping(s, size) ==
    [k \in 1..RangeLen(Len(s), size) |-> Slice(s, (k - 1) * size, k * size + 1)]

\* list(divide(lst, n)): for i in range(0, len(lst), n): yield lst[i : i + n]
divide(s, size) ==
    [k \in 1..RangeLen(Len(s), size) |-> Slice(s, (k - 1) * size, (k - 1) * size + size)]

\* the batch sizes the callers pass
SellerStocksBatch == 100
SellerPricesBatch == 900
SellerUploadPricesBatch == 1000
MarketStocksBatch == 2000
MarketPricesBatch == 500

BatchSizes == { SellerStocksBatch, SellerPricesBatch, SellerUploadPricesBatch,
                MarketStocksBatch, MarketPricesBatch }

-----------------------------------------------------------------------------
(* Reconciliation harness: one call of create_stocks / create_prices on drawn inputs *)

Accounts == {"ozon", "fbs", "dbs"}

NoListing == [a \in Accounts |-> <<>>]

pagerVars == << listing, account, cursor, product_list, fetches, signalAt, served >>
divideVars == << lst, n >>
mainVars == << chunks, requests, stocks, prices, channel, coroutines, failed, reported >>

PagerIdle ==
    /\ listing = NoListing
    /\ account = "ozon"
    /\ cursor = 0
    /\ product_list = <<>>
    /\ fetches = 0
    /\ signalAt = 0
    /\ served = {}

DivideIdle == lst = <<>> /\ n = 1

MainIdle ==
    /\ chunks = <<>>
    /\ requests = <<>>
    /\ stocks = <<>>
    /\ prices = <<>>
    /\ channel = 1
    /\ coroutines = {}
    /\ failed = <<>>
    /\ reported = FALSE

InitRecon ==
    /\ pc = "ready"
    /\ watch_remnants \in SeqsUpTo(Rows, MaxFeed)
    /\ offer_ids \in SeqsUpTo(OfferIdUniverse, MaxIds)
    /\ ids0 = offer_ids
    /\ called = "none"
    /\ ret = <<>>
    /\ PagerIdle /\ DivideIdle /\ MainIdle

\* the caller receives r (a result record whose records are r[field]); offer_ids is
\* the same list object the caller passed
Returns(name, r, records) ==
    /\ pc = "ready"
    /\ pc' = IF r.raised THEN "raised" ELSE "returned"
    /\ called' = name
    /\ ids0' = offer_ids
    /\ offer_ids' = r.offer_ids
    /\ ret' = records
    /\ UNCHANGED << watch_remnants, pagerVars, divideVars, mainVars >>

CallSellerCreateStocks ==
    LET r == seller_create_stocks(watch_remnants, offer_ids)
    IN  Returns("seller.create_stocks", r, r.stocks)

CallSellerCreatePrices ==
    LET r == seller_create_prices(watch_remnants, offer_ids)
    IN  Returns("seller.create_prices", r, r.prices)

CallMarketCreateStocks ==
    LET r == market_create_stocks(watch_remnants, offer_ids, "wh")
    IN  Returns("market.create_stocks", r, r.stocks)

CallMarketCreatePrices ==
    LET r == market_create_prices(watch_remnants, offer_ids)
    IN  Returns("market.create_prices", r, r.prices)

NextRecon ==
    \/ CallSellerCreateStocks
    \/ CallSellerCreatePrices
    \/ CallMarketCreateStocks
    \/ CallMarketCreatePrices

SpecRecon == InitRecon /\ [][NextRecon]_vars

-----------------------------------------------------------------------------
(* Vocabulary of the reconciliation claims *)

StockCalls == {"seller.create_stocks", "market.create_stocks"}
PriceCalls == {"seller.create_prices", "market.create_prices"}

Distinct(s) == \A i, j \in 1..Len(s) : s[i] = s[j] => i = j

\* the offer id a record is about, whatever the marketplace's field name
RecordId(r) ==
    IF "offer_id" \in DOMAIN r THEN r.offer_id
    ELSE IF "sku" \in DOMAIN r THEN r.sku
    ELSE r.id

RecordsOf(records, id) == { i \in 1..Len(records) : RecordId(records[i]) = id }

StockOf(r) == IF "stock" \in DOMAIN r THEN r.stock ELSE r.count

FeedCodesOf(rows) == { rows[i].Kod : i \in 1..Len(rows) }

HasDuplicateCodes(rows) == \E i, j \in 1..Len(rows) : i # j /\ rows[i].Kod = rows[j].Kod

\* the offer ids of ids0 that some feed row matches
Matched == { ids0[i] : i \in 1..Len(ids0) } \cap FeedCodesOf(watch_remnants)
Unmatched == { ids0[i] : i \in 1..Len(ids0) } \ FeedCodesOf(watch_remnants)

\* C1: create_stocks (both variants), given k distinct offer ids and any feed,
\* returns exactly k stock records and no offer id is in two of them.
C1_StocksComplete ==
    (pc = "returned" /\ called \in StockCalls /\ Distinct(ids0)) =>
        /\ Len(ret) = Len(ids0)
        /\ \A i, j \in 1..Len(ret) : RecordId(ret[i]) = RecordId(ret[j]) => i = j

\* C1 witness: create_stocks has returned for 2 distinct ids and a feed that has
\* the same code twice
C1_Witness ==
    /\ pc = "returned" /\ called \in StockCalls
    /\ Distinct(ids0) /\ Len(ids0) = 2
    /\ HasDuplicateCodes(watch_remnants)
    /\ FeedCodesOf(watch_remnants) \subseteq { ids0[i] : i \in 1..Len(ids0) }

\* C2 (as claimed): create_prices (both variants) returns exactly one price record
\* for every offer id some feed row matches, and never two for one offer id.
C2_OnePricePerMatched ==
    (pc = "returned" /\ called \in PriceCalls) =>
        /\ \A id \in Matched : Cardinality(RecordsOf(ret, id)) = 1
        /\ \A i, j \in 1..Len(ret) : RecordId(ret[i]) = RecordId(ret[j]) => i = j

\* C5: an offer id that is the code of no feed row gets a stock record with count 0
\* and only such records, gets no price record, and every price record is for an
\* offer the feed matches.
C5_ZeroFill ==
    /\ (pc = "returned" /\ called \in StockCalls) =>
           \A id \in Unmatched :
               /\ RecordsOf(ret, id) # {}
               /\ \A i \in RecordsOf(ret, id) : StockOf(ret[i]) = 0
    /\ (pc = "returned" /\ called \in PriceCalls) =>
           /\ \A id \in Unmatched : RecordsOf(ret, id) = {}
           /\ \A i \in 1..Len(ret) : RecordId(ret[i]) \in Matched

\* C5 witness: create_stocks has returned with one offer matched (non-zero count) and
\* another offer absent from the feed
C5_Witness ==
    /\ pc = "returned" /\ called \in StockCalls
    /\ Unmatched # {} /\ Matched # {}
    /\ \E i \in 1..Len(ret) : StockOf(ret[i]) # 0

\* row i is the first feed row with its code, and the code is an offer id: the loop
\* of create_stocks / create_prices finds the code in offer_ids at row i
FirstMatch(i) ==
    /\ In(watch_remnants[i].Kod, ids0)
    /\ \A j \in 1..(i - 1) : watch_remnants[j].Kod # watch_remnants[i].Kod

BadQuantity(row) ==
    /\ row.Kolichestvo # <<">", "1", "0">>
    /\ row.Kolichestvo # <<"1">>
    /\ ~IntOk(row.Kolichestvo)

BadPrice(row) == \A k \in 1..Len(SplitDot0(row.Tsena)) : SplitDot0(row.Tsena)[k] \notin Digits

\* C8 (as claimed): a malformed matched row makes the reconciliation call fail:
\* create_stocks on a bad quantity, create_prices on a price text without a digit
\* before the first "."
C8_MalformedRowFails ==
    /\ (called \in StockCalls /\ \E i \in 1..Len(watch_remnants) :
            FirstMatch(i) /\ BadQuantity(watch_remnants[i]))
         => (pc = "raised" /\ ret = <<>>)
    /\ (called \in PriceCalls /\ \E i \in 1..Len(watch_remnants) :
            FirstMatch(i) /\ BadPrice(watch_remnants[i]))
         => (pc = "raised" /\ ret = <<>>)

-----------------------------------------------------------------------------
(* Batching harness: one call of list(divide(lst, n)) on drawn inputs *)

reconVars == << watch_remnants, offer_ids, ids0 >>

InitDivide ==
    /\ pc = "ready"
    /\ lst \in SeqsUpTo(OfferIdUniverse, MaxLst)
    /\ n \in (1..MaxN) \cup BatchSizes
    /\ called = "none"
    /\ ret = <<>>
    /\ watch_remnants = <<>> /\ offer_ids = <<>> /\ ids0 = <<>>
    /\ PagerIdle /\ MainIdle

CallDivide ==
    /\ pc = "ready"
    /\ pc' = "returned"
    /\ called' = "divide"
    /\ ret' = divide(lst, n)
    /\ UNCHANGED << reconVars, pagerVars, divideVars, mainVars >>

NextDivide == CallDivide

SpecDivide == InitDivide /\ [][NextDivide]_vars

RECURSIVE Concat(_)
Concat(ss) == IF ss = <<>> THEN <<>> ELSE Head(ss) \o Concat(Tail(ss))

\* C10: the chunks of divide(lst, n), n >= 1, concatenate to lst; each has 1..n
\* elements, all but the last exactly n; an empty lst gives no chunk.  An update
\* request is one chunk, so it carries at most n records.
C10_DivideRoundTrip ==
    (pc = "returned" /\ called = "divide") =>
        /\ Concat(ret) = lst
        /\ \A k \in 1..Len(ret) : Len(ret[k]) >= 1 /\ Len(ret[k]) <= n
        /\ \A k \in 1..(Len(ret) - 1) : Len(ret[k]) = n
        /\ (lst = <<>> => ret = <<>>)

\* C10 witness: divide has produced several chunks, the last one short
C10_Witness ==
    /\ pc = "returned" /\ called = "divide"
    /\ Len(ret) >= 2
    /\ Len(ret[Len(ret)]) < n

-----------------------------------------------------------------------------
(* The marketplaces' list endpoints, as the pagers see them.  A listing is a     *)
(* finite sequence of offers that does not change during a pagination; a page is *)
(* the next sz entries (fewer at the end, none past it).                         *)

Ids(s) == { s[i] : i \in 1..Len(s) }

\* Ozon /v2/product/list: items, the grand total, the cursor of the next page
OzonPage(pos, sz) ==
    LET L  == listing[account]
        hi == Min(pos + sz, Len(L))
    IN  [items   |-> [k \in 1..(hi - pos) |-> [offer_id |-> L[pos + k]]],
         total   |-> Len(L),
         last_id |-> hi]

\* Yandex offer-mapping-entries: entries and paging.nextPageToken (0 models the
\* empty/absent token).  After the last entries the marketplace either sends no
\* token, or (extra) sends one more token whose page is empty and has none.
YandexPage(pos, sz, extra) ==
    LET L  == listing[account]
        hi == Min(pos + sz, Len(L))
    IN  [offerMappingEntries |-> [k \in 1..(hi - pos) |-> [offer |-> [shopSku |-> L[pos + k]]]],
         nextPageToken |-> IF hi < Len(L) THEN hi
                           ELSE IF extra /\ pos < hi THEN hi
                           ELSE 0]

-----------------------------------------------------------------------------
(* get_offer_ids (both modules); who called it decides where control goes next *)

Mains == {"seller.main", "market.main"}

\* the four upload functions (async def; their bodies run when a caller awaits them)
UploadCalls == {"seller.upload_stocks", "seller.upload_prices",
                "market.upload_stocks", "market.upload_prices"}

\* the statement after offer_ids = get_offer_ids(...)
AfterOfferIds ==
    IF called = "seller.main" THEN "download_stock"
    ELSE IF called = "market.main" THEN "create_stocks"
    ELSE IF called \in UploadCalls THEN "reconcile"
    ELSE "returned"

\* an exception leaves the function; main's try catches it, prints and main ends
Raise(call) ==
    /\ failed' = Append(failed, [call |-> call, channel |-> channel])
    /\ reported' = (called \in Mains)
    /\ pc' = IF called \in Mains THEN "done" ELSE "raised"

\* a faulty variant: the wrong comparison
seller_total_below(total, products) == total < Len(products)

\* if total == len(product_list): break
seller_all_fetched(total, products) == total = Len(products)

\* if not page: break
market_no_next_page(page) == page = 0

\* one iteration of the while True loop of seller.get_offer_ids whose
\* get_product_list call succeeds; on break, the offer_id projection and return
SellerFetchPage ==
    /\ pc = "get_offer_ids" /\ account = "ozon"
    /\ \E sz \in 1..MaxPage :
         LET some_prod == OzonPage(cursor, sz)
             products  == product_list \o some_prod.items
         IN  /\ product_list' = products
             /\ cursor' = some_prod.last_id
             /\ fetches' = fetches + 1
             /\ served' = served \cup { some_prod.items[k].offer_id : k \in 1..Len(some_prod.items) }
             /\ signalAt' = IF signalAt = 0 /\ some_prod.total = Len(products)
                            THEN fetches + 1 ELSE signalAt
             /\ IF seller_all_fetched(some_prod.total, products)
                THEN /\ offer_ids' = [k \in 1..Len(products) |-> products[k].offer_id]
                     /\ ids0' = offer_ids'
                     /\ pc' = AfterOfferIds
                ELSE UNCHANGED << offer_ids, ids0, pc >>
    /\ UNCHANGED << watch_remnants, called, ret, listing, account, divideVars, mainVars >>

\* the same for market.get_offer_ids
MarketFetchPage ==
    /\ pc = "get_offer_ids" /\ account \in {"fbs", "dbs"}
    /\ \E sz \in 1..MaxPage, extra \in BOOLEAN :
         LET some_prod == YandexPage(cursor, sz, extra)
             entries   == some_prod.offerMappingEntries
             products  == product_list \o entries
             page      == some_prod.nextPageToken
         IN  /\ product_list' = products
             /\ cursor' = page
             /\ fetches' = fetches + 1
             /\ served' = served \cup { entries[k].offer.shopSku : k \in 1..Len(entries) }
             /\ signalAt' = IF signalAt = 0 /\ page = 0 THEN fetches + 1 ELSE signalAt
             /\ IF market_no_next_page(page)
                THEN /\ offer_ids' = [k \in 1..Len(products) |-> products[k].offer.shopSku]
                     /\ ids0' = offer_ids'
                     /\ pc' = AfterOfferIds
                ELSE UNCHANGED << offer_ids, ids0, pc >>
    /\ UNCHANGED << watch_remnants, called, ret, listing, account, divideVars, mainVars >>

\* the offer ids of the products accumulated so far
ProductIds ==
    [k \in 1..Len(product_list) |->
        IF account = "ozon" THEN product_list[k].offer_id
        ELSE product_list[k].offer.shopSku]

\* a faulty variant: the error is swallowed and the ids accumulated so far are returned
page_error_partial(ids) == [raised |-> FALSE, offer_ids |-> ids]

\* the loop of get_offer_ids has no try: an exception of get_product_list leaves
\* get_offer_ids, whatever has been accumulated
page_error(ids) == [raised |-> TRUE, offer_ids |-> <<>>]

\* get_product_list raises (transport error, or raise_for_status): get_offer_ids
\* does not catch it and returns nothing
FetchPageFails ==
    /\ pc = "get_offer_ids"
    /\ fetches' = fetches + 1
    /\ LET out == page_error(ProductIds)
       IN  IF out.raised
           THEN /\ Raise("get_product_list")
                /\ UNCHANGED << offer_ids, ids0 >>
           ELSE /\ failed' = Append(failed, [call |-> "get_product_list", channel |-> channel])
                /\ offer_ids' = out.offer_ids
                /\ ids0' = out.offer_ids
                /\ pc' = AfterOfferIds
                /\ UNCHANGED reported
    /\ UNCHANGED << watch_remnants, called, ret, listing, account, cursor,
                    product_list, signalAt, served, divideVars,
                    chunks, requests, stocks, prices, channel, coroutines >>

-----------------------------------------------------------------------------
(* Pager harness: one call of get_offer_ids against a drawn listing *)

InitPager ==
    /\ pc = "get_offer_ids"
    /\ account \in {"ozon", "fbs"}
    /\ called = (IF account = "ozon" THEN "seller.get_offer_ids" ELSE "market.get_offer_ids")
    /\ \E L \in SeqsUpTo(OfferIdUniverse, MaxListing) :
           listing = [NoListing EXCEPT ![account] = L]
    /\ cursor = 0 /\ product_list = <<>> /\ fetches = 0 /\ signalAt = 0 /\ served = {}
    /\ watch_remnants = <<>> /\ offer_ids = <<>> /\ ids0 = <<>> /\ ret = <<>>
    /\ DivideIdle /\ MainIdle

NextPager == SellerFetchPage \/ MarketFetchPage \/ FetchPageFails

SpecPager == InitPager /\ [][NextPager]_vars

PagerCalls == {"seller.get_offer_ids", "market.get_offer_ids"}

\* C6: on a finite listing the pagers stop: the token pager with the first page that
\* has no next-page token, the count pager when the accumulated count equals the
\* total; no page is fetched after that signal, and while a pager is still running
\* the signal has not come, so the number of fetches is bounded by the listing.
C6_PagerStops ==
    called \in PagerCalls =>
        /\ signalAt # 0 => (pc = "returned" /\ fetches = signalAt)
        /\ pc = "returned" => signalAt # 0
        /\ fetches <= Len(listing[account]) + 1
        /\ (pc = "get_offer_ids" /\ account = "ozon" /\ fetches > 0) =>
               Len(product_list) < Len(listing[account])

\* C6 witness: a pager has returned after more than one page
C6_Witness ==
    /\ called \in PagerCalls /\ pc = "returned"
    /\ fetches >= 2 /\ signalAt = fetches

\* C7 (as claimed): what get_offer_ids returns holds every offer id served on a page,
\* each exactly once.
C7_DeduplicatedUnion ==
    (called \in PagerCalls /\ pc = "returned") =>
        /\ Ids(offer_ids) = served
        /\ \A i, j \in 1..Len(offer_ids) : offer_ids[i] = offer_ids[j] => i = j

-----------------------------------------------------------------------------
(* seller.main *)

\* the feed download_stock will return is drawn at the start; the marketplace's
\* listing too
InitSeller ==
    /\ pc = "get_offer_ids"
    /\ called = "seller.main"
    /\ account = "ozon"
    /\ \E L \in SeqsUpTo(OfferIdUniverse, MaxListing) :
           listing = [NoListing EXCEPT !["ozon"] = L]
    /\ watch_remnants \in SeqsUpTo(Rows, MaxMainFeed)
    /\ cursor = 0 /\ product_list = <<>> /\ fetches = 0 /\ signalAt = 0 /\ served = {}
    /\ offer_ids = <<>> /\ ids0 = <<>> /\ ret = <<>>
    /\ DivideIdle /\ MainIdle

\* an update request the marketplace accepted
Request(endpoint, body) == [endpoint |-> endpoint, account |-> account, body |-> body]

\* watch_remnants = download_stock()
SellerDownloadStock ==
    /\ called = "seller.main" /\ pc = "download_stock"
    /\ pc' = "create_stocks"
    /\ UNCHANGED << reconVars, called, ret, pagerVars, divideVars, mainVars >>

SellerDownloadFails ==
    /\ called = "seller.main" /\ pc = "download_stock"
    /\ Raise("download_stock")
    /\ UNCHANGED << reconVars, called, ret, pagerVars, divideVars,
                    chunks, requests, stocks, prices, channel, coroutines >>

\* stocks = create_stocks(watch_remnants, offer_ids); list(divide(stocks, 100))
SellerCreateStocks ==
    /\ called = "seller.main" /\ pc = "create_stocks"
    /\ LET r == seller_create_stocks(watch_remnants, offer_ids)
       IN  /\ offer_ids' = r.offer_ids
           /\ IF r.raised
              THEN /\ Raise("create_stocks")
                   /\ UNCHANGED << stocks, chunks >>
              ELSE /\ stocks' = r.stocks
                   /\ chunks' = divide(r.stocks, SellerStocksBatch)
                   /\ pc' = "update_stocks"
                   /\ UNCHANGED << failed, reported >>
    /\ UNCHANGED << watch_remnants, ids0, called, ret, pagerVars, divideVars,
                    requests, prices, channel, coroutines >>

\* update_stocks(some_stock, client_id, seller_token) for the next chunk
SellerUpdateStocks ==
    /\ called = "seller.main" /\ pc = "update_stocks" /\ chunks # <<>>
    /\ requests' = Append(requests, Request("stocks", Head(chunks)))
    /\ chunks' = Tail(chunks)
    /\ UNCHANGED << pc, reconVars, called, ret, pagerVars, divideVars,
                    stocks, prices, channel, coroutines, failed, reported >>

SellerUpdateStocksFails ==
    /\ called = "seller.main" /\ pc = "update_stocks" /\ chunks # <<>>
    /\ Raise("update_stocks")
    /\ UNCHANGED << reconVars, called, ret, pagerVars, divideVars,
                    chunks, requests, stocks, prices, channel, coroutines >>

\* prices = create_prices(watch_remnants, offer_ids), with the offer_ids list that
\* create_stocks was given; list(divide(prices, 900))
SellerCreatePrices ==
    /\ called = "seller.main" /\ pc = "update_stocks" /\ chunks = <<>>
    /\ LET r == seller_create_prices(watch_remnants, offer_ids)
       IN  /\ offer_ids' = r.offer_ids
           /\ prices' = r.prices
           /\ chunks' = divide(r.prices, SellerPricesBatch)
           /\ pc' = "update_price"
    /\ UNCHANGED << watch_remnants, ids0, called, ret, pagerVars, divideVars,
                    requests, stocks, channel, coroutines, failed, reported >>

\* update_price(some_price, client_id, seller_token) for the next chunk
SellerUpdatePrice ==
    /\ called = "seller.main" /\ pc = "update_price" /\ chunks # <<>>
    /\ requests' = Append(requests, Request("prices", Head(chunks)))
    /\ chunks' = Tail(chunks)
    /\ UNCHANGED << pc, reconVars, called, ret, pagerVars, divideVars,
                    stocks, prices, channel, coroutines, failed, reported >>

SellerUpdatePriceFails ==
    /\ called = "seller.main" /\ pc = "update_price" /\ chunks # <<>>
    /\ Raise("update_price")
    /\ UNCHANGED << reconVars, called, ret, pagerVars, divideVars,
                    chunks, requests, stocks, prices, channel, coroutines >>

\* the try block ends
SellerFinish ==
    /\ called = "seller.main" /\ pc = "update_price" /\ chunks = <<>>
    /\ pc' = "done"
    /\ UNCHANGED << reconVars, called, ret, pagerVars, divideVars, mainVars >>

NextSeller ==
    \/ SellerFetchPage
    \/ FetchPageFails
    \/ SellerDownloadStock
    \/ SellerDownloadFails
    \/ SellerCreateStocks
    \/ SellerUpdateStocks
    \/ SellerUpdateStocksFails
    \/ SellerCreatePrices
    \/ SellerUpdatePrice
    \/ SellerUpdatePriceFails
    \/ SellerFinish

SpecSeller == InitSeller /\ [][NextSeller]_vars

\* the offer ids of the records sent to an endpoint of an account
SentIds(endpoint, acct) ==
    UNION { { RecordId(requests[i].body[k]) : k \in 1..Len(requests[i].body) } :
            i \in { j \in 1..Len(requests) :
                      requests[j].endpoint = endpoint /\ requests[j].account = acct } }

\* C3 (as claimed): when a run of seller.main in which no call failed ends, the offer
\* ids whose price record went out through update_price are the fetched offer ids
\* that match the code of a feed row.
C3_SellerPricesPushed ==
    (called = "seller.main" /\ pc = "done" /\ failed = <<>>) =>
        SentIds("prices", "ozon") = Ids(ids0) \cap FeedCodesOf(watch_remnants)

-----------------------------------------------------------------------------
(* market.main *)

Campaign(ch) == IF ch = 1 THEN "fbs" ELSE "dbs"
Warehouse(ch) == IF ch = 1 THEN "warehouse_fbs" ELSE "warehouse_dbs"

MarketIdUniverse == {"A", "B"}
MaxMarketListing == 2

InitMarket ==
    /\ pc = "download_stock"
    /\ called = "market.main"
    /\ channel = 1
    /\ account = Campaign(1)
    /\ \E F \in SeqsUpTo(MarketIdUniverse, MaxMarketListing),
          D \in SeqsUpTo(MarketIdUniverse, MaxMarketListing) :
           listing = [NoListing EXCEPT !["fbs"] = F, !["dbs"] = D]
    /\ watch_remnants \in SeqsUpTo(Rows, MaxMainFeed)
    /\ cursor = 0 /\ product_list = <<>> /\ fetches = 0 /\ signalAt = 0 /\ served = {}
    /\ offer_ids = <<>> /\ ids0 = <<>> /\ ret = <<>>
    /\ DivideIdle
    /\ chunks = <<>> /\ requests = <<>> /\ stocks = <<>> /\ prices = <<>>
    /\ coroutines = {} /\ failed = <<>> /\ reported = FALSE

\* watch_remnants = download_stock(), before the try
MarketDownloadStock ==
    /\ called = "market.main" /\ pc = "download_stock"
    /\ pc' = "get_offer_ids"
    /\ UNCHANGED << reconVars, called, ret, pagerVars, divideVars, mainVars >>

\* no try around it: the exception ends the process
MarketDownloadFails ==
    /\ called = "market.main" /\ pc = "download_stock"
    /\ failed' = Append(failed, [call |-> "download_stock", channel |-> channel])
    /\ pc' = "crashed"
    /\ UNCHANGED << reconVars, called, ret, pagerVars, divideVars,
                    chunks, requests, stocks, prices, channel, coroutines, reported >>

\* stocks = create_stocks(watch_remnants, offer_ids, warehouse_<channel>_id);
\* list(divide(stocks, 2000))
MarketCreateStocks ==
    /\ called = "market.main" /\ pc = "create_stocks"
    /\ LET r == market_create_stocks(watch_remnants, offer_ids, Warehouse(channel))
       IN  /\ offer_ids' = r.offer_ids
           /\ IF r.raised
              THEN /\ Raise("create_stocks")
                   /\ UNCHANGED << stocks, chunks >>
              ELSE /\ stocks' = r.stocks
                   /\ chunks' = divide(r.stocks, MarketStocksBatch)
                   /\ pc' = "update_stocks"
                   /\ UNCHANGED << failed, reported >>
    /\ UNCHANGED << watch_remnants, ids0, called, ret, pagerVars, divideVars,
                    requests, prices, channel, coroutines >>

\* update_stocks(some_stock, campaign_<channel>_id, market_token) for the next chunk
MarketUpdateStocks ==
    /\ called = "market.main" /\ pc = "update_stocks" /\ chunks # <<>>
    /\ requests' = Append(requests, Request("stocks", Head(chunks)))
    /\ chunks' = Tail(chunks)
    /\ UNCHANGED << pc, reconVars, called, ret, pagerVars, divideVars,
                    stocks, prices, channel, coroutines, failed, reported >>

MarketUpdateStocksFails ==
    /\ called = "market.main" /\ pc = "update_stocks" /\ chunks # <<>>
    /\ Raise("update_stocks")
    /\ UNCHANGED << reconVars, called, ret, pagerVars, divideVars,
                    chunks, requests, stocks, prices, channel, coroutines >>

\* upload_prices(watch_remnants, campaign_<channel>_id, market_token): upload_prices
\* is an async def and the call is not awaited, so the call only makes a coroutine
\* object; its body (get_offer_ids, create_prices, update_price) never runs, main has
\* no event loop.  Then the DBS pass starts, or the try block ends.
MarketUploadPrices ==
    /\ called = "market.main" /\ pc = "update_stocks" /\ chunks = <<>>
    /\ coroutines' = coroutines \cup {[function |-> "upload_prices", campaign |-> Campaign(channel)]}
    /\ IF channel = 1
       THEN /\ channel' = 2
            /\ account' = Campaign(2)
            /\ cursor' = 0 /\ product_list' = <<>>
            /\ fetches' = 0 /\ signalAt' = 0 /\ served' = {}
            /\ pc' = "get_offer_ids"
       ELSE /\ pc' = "done"
            /\ UNCHANGED << channel, account, cursor, product_list, fetches, signalAt, served >>
    /\ UNCHANGED << reconVars, called, ret, listing, divideVars,
                    chunks, requests, stocks, prices, failed, reported >>

NextMarket ==
    \/ MarketDownloadStock
    \/ MarketDownloadFails
    \/ MarketFetchPage
    \/ FetchPageFails
    \/ MarketCreateStocks
    \/ MarketUpdateStocks
    \/ MarketUpdateStocksFails
    \/ MarketUploadPrices

SpecMarket == InitMarket /\ [][NextMarket]_vars

\* the stock requests sent to a campaign
StockRequests(acct) ==
    { i \in 1..Len(requests) : requests[i].endpoint = "stocks" /\ requests[i].account = acct }

\* C4 (as claimed): when a run of market.main in which no call failed ends, each
\* channel has had its pass: its offers went out in stock records that carry the
\* channel's warehouse id, to the channel's campaign, and a price record for every
\* offer of the channel that the feed matches was sent to the channel's campaign.
C4_MarketChannelPasses ==
    (called = "market.main" /\ pc = "done" /\ failed = <<>>) =>
        \A ch \in {1, 2} :
            /\ SentIds("stocks", Campaign(ch)) = Ids(listing[Campaign(ch)])
            /\ \A i \in StockRequests(Campaign(ch)) :
                   \A k \in 1..Len(requests[i].body) :
                       requests[i].body[k].warehouseId = Warehouse(ch)
            /\ (Ids(listing[Campaign(ch)]) \cap FeedCodesOf(watch_remnants))
                   \subseteq SentIds("prices", Campaign(ch))

\* the calls of the FBS pass that C9 is about
FbsTransportFailure ==
    \E i \in 1..Len(failed) :
        failed[i].channel = 1 /\ failed[i].call \in {"get_product_list", "update_stocks"}

\* C9 (as claimed): in market.main a page-fetch or chunk-push error of the FBS pass
\* is caught and reported, and the DBS pass still runs (its offer ids are fetched).
C9_DbsAfterFbsError ==
    (called = "market.main" /\ pc \in {"done", "crashed"} /\ FbsTransportFailure) =>
        /\ pc = "done" /\ reported
        /\ channel = 2 /\ fetches >= 1

\* the count the claimed mapping gives a well-formed descriptor
MappedCount(text) ==
    IF text = <<">", "1", "0">> THEN 100
    ELSE IF text = <<"1">> THEN 0
    ELSE IntValue(text)

\* C11 (as claimed): for every matched feed row create_stocks (both variants) emits
\* the count of the mapping (">10" gives 100, "1" gives 0, an integer literal gives
\* that integer), and every emitted count is a non-negative integer.
C11_QuantityMapping ==
    (pc = "returned" /\ called \in StockCalls) =>
        /\ \A i \in 1..Len(watch_remnants) :
               FirstMatch(i) =>
                   \E k \in RecordsOf(ret, watch_remnants[i].Kod) :
                       StockOf(ret[k]) = MappedCount(watch_remnants[i].Kolichestvo)
        /\ \A k \in 1..Len(ret) : StockOf(ret[k]) >= 0

ReconCalls == StockCalls \cup PriceCalls

\* C13 (as claimed): a call of create_stocks or create_prices (both variants) leaves
\* the feed rows and the caller's offer-id list as they were, so a later
\* reconciliation call on that list gives what it gives on a fresh copy.
C13_InputsUnchanged ==
    (pc \in {"returned", "raised"} /\ called \in ReconCalls) =>
        /\ offer_ids = ids0
        /\ seller_create_prices(watch_remnants, offer_ids)
               = seller_create_prices(watch_remnants, ids0)
        /\ market_create_stocks(watch_remnants, offer_ids, "wh")
               = market_create_stocks(watch_remnants, ids0, "wh")

-----------------------------------------------------------------------------
(* upload_stocks / upload_prices (both modules), run to completion by a caller *)

UploadsStocks == called \in {"seller.upload_stocks", "market.upload_stocks"}

\* the n of divide in each upload function
UploadBatch ==
    IF called = "seller.upload_stocks" THEN SellerStocksBatch
    ELSE IF called = "seller.upload_prices" THEN SellerUploadPricesBatch
    ELSE IF called = "market.upload_stocks" THEN MarketStocksBatch
    ELSE MarketPricesBatch

\* the create_stocks / create_prices call of each upload function
UploadRecords ==
    IF called = "seller.upload_stocks" THEN seller_create_stocks(watch_remnants, offer_ids)
    ELSE IF called = "seller.upload_prices" THEN seller_create_prices(watch_remnants, offer_ids)
    ELSE IF called = "market.upload_stocks"
    THEN market_create_stocks(watch_remnants, offer_ids, Warehouse(1))
    ELSE market_create_prices(watch_remnants, offer_ids)

InitUpload ==
    /\ pc = "get_offer_ids"
    /\ called \in UploadCalls
    /\ account = (IF called \in {"seller.upload_stocks", "seller.upload_prices"}
                  THEN "ozon" ELSE Campaign(1))
    /\ \E L \in SeqsUpTo(MarketIdUniverse, MaxMarketListing) :
           listing = [NoListing EXCEPT ![account] = L]
    /\ watch_remnants \in SeqsUpTo(Rows, MaxMainFeed)
    /\ cursor = 0 /\ product_list = <<>> /\ fetches = 0 /\ signalAt = 0 /\ served = {}
    /\ offer_ids = <<>> /\ ids0 = <<>> /\ ret = <<>>
    /\ DivideIdle /\ MainIdle

\* stocks = create_stocks(...) or prices = create_prices(...); list(divide(..., n))
UploadReconcile ==
    /\ called \in UploadCalls /\ pc = "reconcile"
    /\ LET r == UploadRecords
       IN  /\ offer_ids' = r.offer_ids
           /\ IF r.raised
              THEN /\ Raise(IF UploadsStocks THEN "create_stocks" ELSE "create_prices")
                   /\ UNCHANGED << stocks, prices, chunks >>
              ELSE /\ stocks' = (IF UploadsStocks THEN r.stocks ELSE stocks)
                   /\ prices' = (IF UploadsStocks THEN prices ELSE r.prices)
                   /\ chunks' = divide(IF UploadsStocks THEN r.stocks ELSE r.prices, UploadBatch)
                   /\ pc' = "push"
                   /\ UNCHANGED << failed, reported >>
    /\ UNCHANGED << watch_remnants, ids0, called, ret, pagerVars, divideVars,
                    requests, channel, coroutines >>

\* update_stocks / update_price for the next chunk
UploadPush ==
    /\ called \in UploadCalls /\ pc = "push" /\ chunks # <<>>
    /\ requests' = Append(requests,
                          Request(IF UploadsStocks THEN "stocks" ELSE "prices", Head(chunks)))
    /\ chunks' = Tail(chunks)
    /\ UNCHANGED << pc, reconVars, called, ret, pagerVars, divideVars,
                    stocks, prices, channel, coroutines, failed, reported >>

UploadPushFails ==
    /\ called \in UploadCalls /\ pc = "push" /\ chunks # <<>>
    /\ Raise(IF UploadsStocks THEN "update_stocks" ELSE "update_price")
    /\ UNCHANGED << reconVars, called, ret, pagerVars, divideVars,
                    chunks, requests, stocks, prices, channel, coroutines >>

\* return prices / return not_empty, stocks
UploadReturn ==
    /\ called \in UploadCalls /\ pc = "push" /\ chunks = <<>>
    /\ ret' = (IF UploadsStocks
               THEN << SelectSeq(stocks, LAMBDA stock : StockOf(stock) # 0), stocks >>
               ELSE prices)
    /\ pc' = "returned"
    /\ UNCHANGED << reconVars, called, pagerVars, divideVars, mainVars >>

NextUpload ==
    \/ SellerFetchPage
    \/ MarketFetchPage
    \/ FetchPageFails
    \/ UploadReconcile
    \/ UploadPush
    \/ UploadPushFails
    \/ UploadReturn

SpecUpload == InitUpload /\ [][NextUpload]_vars

-----------------------------------------------------------------------------
(* Every pass that starts with get_offer_ids: the pager alone, the upload         *)
(* functions, the two main()                                                      *)

\* the feed rows of these runs: a well-formed row, one with a malformed quantity and
\* one with a malformed price, for each code
PassRows ==
    { r \in Rows : r.Kolichestvo \in { <<">", "1", "0">>, <<"a", "b", "c">>, <<"7">> } }

InitPasses ==
    /\ InitPager \/ InitUpload \/ InitSeller \/ InitMarket
    /\ watch_remnants \in SeqsUpTo(PassRows, MaxMainFeed)

NextPasses == NextPager \/ NextUpload \/ NextSeller \/ NextMarket

SpecPasses == InitPasses /\ [][NextPasses]_vars

\* a get_product_list call of the run has raised
FetchFailed == \E i \in 1..Len(failed) : failed[i].call = "get_product_list"

\* C12: a failed page fetch makes get_offer_ids fail without handing its caller any
\* offer ids (the caller's offer_ids is not assigned), the pass ends there, and no
\* stock or price update request is issued from then on.
C12_FetchAllOrNothing ==
    [][ FetchFailed' =>
            /\ offer_ids' = offer_ids
            /\ requests' = requests
            /\ pc' \in {"raised", "done"} ]_vars

\* C12 witness: an upload pass or a main() has ended on a page-fetch failure that
\* came after a page of offers had been accumulated
C12_Witness ==
    /\ FetchFailed
    /\ called \in UploadCalls \cup Mains
    /\ product_list # <<>>
    /\ pc \in {"raised", "done"}

\* the whole repository: any of the harnesses and entry points
Init == InitRecon \/ InitDivide \/ InitPager \/ InitUpload \/ InitSeller \/ InitMarket

Next == NextRecon \/ NextDivide \/ NextPager \/ NextUpload \/ NextSeller \/ NextMarket

Spec == Init /\ [][Next]_vars

====
